---- MODULE Spec2Model ----
(***************************************************************************)
(* KnuffelGame LobbyService: the lobby handlers (create, join, get, kick,  *)
(* set-active), the access guards wired in front of them by the router,    *)
(* the join-code generator and the PostgreSQL repository they call.        *)
(*                                                                         *)
(* Every request runs in a process slot p.  One action is one storage call *)
(* of the handler together with the local code around it, so that requests *)
(* interleave exactly at the storage calls.  The store is PostgreSQL at    *)
(* READ COMMITTED: a transaction sees the committed rows plus its own      *)
(* writes, its writes become visible at Commit, an insert that meets an    *)
(* uncommitted row with the same unique key waits for that transaction.    *)
(***************************************************************************)
EXTENDS Integers, Sequences, FiniteSets, TLC

\* ---------------------------------------------------------------- bounds
MaxLobbies == 2
MaxRows == 3
MaxClock == 5

\* ------------------------------------------------------ program constants
maxPlayers == 6
MaxRetries == 5
CodeLength == 6
LobbyStatusWaiting == "waiting"
LobbyStatusInGame == "running"

StatusCreated == 201
StatusOK == 200
StatusNoContent == 204
StatusBadRequest == 400
StatusForbidden == 403
StatusNotFound == 404
StatusConflict == 409
StatusInternalServerError == 500

\* ------------------------------------------------------------ input sets
Procs == {1, 2}
\* the users of the small workloads, and enough users to overfill a lobby
UserIds == {1, 2, 3}
ManyUserIds == 1..(maxPlayers + 1)
\* ids are UUIDs: the ids the store generates for players rows are drawn from
\* the same space as the user ids the clients supply
RowIds(n) == 3..(n + 2)
PlayerIds == RowIds(maxPlayers + 1)
LobbyIds == 21..(20 + MaxLobbies)
Names == {"Alice", "Bob"}
\* A join code is the sequence of its characters.
Charset ==
    <<"A", "B", "C", "D", "E", "F", "G", "H", "I", "J", "K", "L", "M",
      "N", "O", "P", "Q", "R", "S", "T", "U", "V", "W", "X", "Y", "Z",
      "0", "1", "2", "3", "4", "5", "6", "7", "8", "9">>
Lowercase ==
    <<"a", "b", "c", "d", "e", "f", "g", "h", "i", "j", "k", "l", "m",
      "n", "o", "p", "q", "r", "s", "t", "u", "v", "w", "x", "y", "z">>

\* Variant: the index taken modulo the number of letters, no digit is drawn.
generateRandomCodeLettersOnly(bytes) ==
    [i \in 1..CodeLength |-> Charset[(bytes[i] % Len(Lowercase)) + 1]]

\* generateRandomCode: CodeLength random bytes, each replaced by
\* Charset[int(b) % len(Charset)]  (Go indexes from 0)
generateRandomCode(bytes) ==
    [i \in 1..CodeLength |-> Charset[(bytes[i] % Len(Charset)) + 1]]

\* strings.ToUpper
ToUpper(code) ==
    [i \in 1..Len(code) |->
        IF \E k \in 1..Len(Lowercase) : Lowercase[k] = code[i]
        THEN Charset[CHOOSE k \in 1..Len(Lowercase) : Lowercase[k] = code[i]]
        ELSE code[i]]

\* crypto/rand: the byte buffers the random source can fill.  The small
\* workloads draw from two buffers, the code-shape workload puts every byte
\* value at every position.
MaxByte == 255
SameBytes(b) == [i \in 1..CodeLength |-> b]
FewBytes == {SameBytes(0), SameBytes(1)}
AllBytes == {[k \in 1..CodeLength |-> IF k = i THEN b ELSE 0] :
                i \in 1..CodeLength, b \in 0..MaxByte}
\* the codes the small workloads generate: AAAAAA and BBBBBB
GenCodes == {ToUpper(generateRandomCode(bytes)) : bytes \in FewBytes}
\* the codes a client can send to JoinLobby: issued ones, an unused one
\* (ZZZZZZ) and one of the wrong length (ABC)
JoinCodes == GenCodes \cup {[i \in 1..CodeLength |-> "Z"], <<"A", "B", "C">>}

VARIABLES
    workload,   \* the requests the clients send in this run (never changes)
    users,      \* table users:   id -> username                (committed)
    lobbies,    \* table lobbies: id -> [joinCode, leaderId, status]
    players,    \* table players: id -> [lobbyId, userId, joinedAt, isActive, leftAt]
    pc,         \* position of the request in slot p
    req,        \* the request in slot p
    loc,        \* the handler's local variables
    tx,         \* the open transaction of slot p and its uncommitted writes
    resp,       \* the response written by the request
    calls,      \* history: number of storage calls the request has made
    dirty,      \* history: the request has changed the committed tables
    faulted     \* history: a storage call of the request returned an error

vars == <<workload, users, lobbies, players, pc, req, loc, tx, resp, calls, dirty, faulted>>

EmptyFn == [x \in {} |-> x]
NoTime == 0

NoReq == [op |-> "none", user |-> 0, name |-> "", code |-> <<>>, lobby |-> 0,
          target |-> 0, active |-> FALSE]
NoLoc == [lobbyID |-> 0, joinCode |-> <<>>, attempt |-> 0, playerID |-> 0,
          joinedAt |-> NoTime, leaderID |-> 0, bytes |-> <<>>, genErr |-> ""]
NoTx == [open |-> FALSE, start |-> NoTime, users |-> EmptyFn,
         lobbies |-> EmptyFn, players |-> EmptyFn]
NoResp == [status |-> 0, code |-> "", body |-> <<>>]

\* ===================================================== repository (store)
\* What a statement of transaction t sees: the committed rows, overlaid by
\* the transaction's own uncommitted writes.
TxUsers(t) == t.users @@ users
TxLobbies(t) == t.lobbies @@ lobbies
TxPlayers(t) == t.players @@ players

\* The uncommitted writes of the other open transactions.
OtherTx(p) == {tx[q] : q \in Procs \ {p}}

\* BeginTx: BEGIN; the transaction's timestamp is taken here.
BeginTx(now) == [NoTx EXCEPT !.open = TRUE, !.start = now]

\* Variant: ON CONFLICT (id) DO UPDATE SET username = EXCLUDED.username
CreateUserIfNotExistsTxUpdate(t, userID, username) ==
    [t EXCEPT !.users = (userID :> username) @@ @]

\* INSERT INTO users (id, username) VALUES ($1, $2) ON CONFLICT (id) DO NOTHING
CreateUserIfNotExistsTx(t, userID, username) ==
    IF userID \in DOMAIN TxUsers(t)
    THEN t
    ELSE [t EXCEPT !.users = (userID :> username) @@ @]

\* The insert waits while another open transaction holds an uncommitted row
\* with the same primary key.
UserInsertWaits(p, userID) ==
    /\ userID \notin DOMAIN users
    /\ \E o \in OtherTx(p) : userID \in DOMAIN o.users

\* gen_random_uuid(): an id no committed or uncommitted row uses.
FreeLobbyIds == {l \in LobbyIds : /\ l \notin DOMAIN lobbies
                                  /\ \A q \in Procs : l \notin DOMAIN tx[q].lobbies}
FreePlayerIds == {i \in PlayerIds : /\ i \notin DOMAIN players
                                    /\ \A q \in Procs : i \notin DOMAIN tx[q].players}
Min(S) == CHOOSE x \in S : \A y \in S : x <= y

\* Variant: the column join_code without its UNIQUE constraint.
JoinCodeTakenNoUnique(t, joinCode) == FALSE

\* join_code CHAR(6) NOT NULL UNIQUE: the insert is rejected when a committed
\* lobby has the code, and waits while an uncommitted one has it.
JoinCodeTaken(t, joinCode) ==
    \E l \in DOMAIN TxLobbies(t) : TxLobbies(t)[l].joinCode = joinCode
LobbyInsertWaits(p, joinCode) ==
    \E o \in OtherTx(p) : \E l \in DOMAIN o.lobbies : o.lobbies[l].joinCode = joinCode

\* Variant: the lobby inserted with the status of a started game.
CreateLobbyTxRunning(t, lobbyID, joinCode, leaderID) ==
    [t EXCEPT !.lobbies = (lobbyID :> [joinCode |-> joinCode, leaderId |-> leaderID,
                                       status |-> LobbyStatusInGame]) @@ @]

\* INSERT INTO lobbies (join_code, leader_id, status) VALUES ($1, $2, 'waiting')
\* RETURNING id
CreateLobbyTx(t, lobbyID, joinCode, leaderID) ==
    [t EXCEPT !.lobbies = (lobbyID :> [joinCode |-> joinCode, leaderId |-> leaderID,
                                       status |-> LobbyStatusWaiting]) @@ @]

\* INSERT INTO players (lobby_id, user_id, is_active) VALUES ($1, $2, true)
\* RETURNING id, joined_at       (joined_at DEFAULT CURRENT_TIMESTAMP)
AddPlayerTx(t, playerID, lobbyID, userID) ==
    [t EXCEPT !.players = (playerID :> [lobbyId |-> lobbyID, userId |-> userID,
                                        joinedAt |-> t.start, isActive |-> TRUE,
                                        leftAt |-> NoTime]) @@ @]

\* SELECT leader_id FROM lobbies WHERE id = $1   (on the pool, committed rows)
LobbyExists(lobbyID) == lobbyID \in DOMAIN lobbies
\* Variant: the query without WHERE id = $1, the leader of just any lobby.
GetLobbyLeaderIDAnyLobby(lobbyID) ==
    lobbies[CHOOSE l \in DOMAIN lobbies : l # lobbyID \/ DOMAIN lobbies = {lobbyID}].leaderId
GetLobbyLeaderID(lobbyID) == lobbies[lobbyID].leaderId

\* Variant: the user id compared with the row id instead of user_id.
IsMemberByRowId(lobbyID, userID) ==
    \E i \in DOMAIN players : /\ players[i].lobbyId = lobbyID
                              /\ i = userID

\* SELECT EXISTS(SELECT 1 FROM players WHERE lobby_id = $1 AND user_id = $2)
IsMember(lobbyID, userID) ==
    \E i \in DOMAIN players : /\ players[i].lobbyId = lobbyID
                              /\ players[i].userId = userID

\* SELECT ... FROM lobbies WHERE join_code = $1   (inside the transaction)
GetLobbyByJoinCodeTx(t, joinCode) ==
    {l \in DOMAIN TxLobbies(t) : TxLobbies(t)[l].joinCode = joinCode}

\* SELECT COUNT(*) FROM players WHERE lobby_id = $1 AND is_active = true
ActiveRows(P, lobbyID) == {i \in DOMAIN P : P[i].lobbyId = lobbyID /\ P[i].isActive}
\* Variant: the count taken over the rows with is_active = false.
GetLobbyPlayerCountTxInactive(t, lobbyID) ==
    Cardinality({i \in DOMAIN TxPlayers(t) : /\ TxPlayers(t)[i].lobbyId = lobbyID
                                             /\ ~TxPlayers(t)[i].isActive})
\* Variant: the count without AND is_active = true.
GetLobbyPlayerCountTxAllRows(t, lobbyID) ==
    Cardinality({i \in DOMAIN TxPlayers(t) : TxPlayers(t)[i].lobbyId = lobbyID})
\* Variant: the count reads the uncommitted rows of every open transaction.
GetLobbyPlayerCountTxUncommitted(t, lobbyID) ==
    Cardinality(ActiveRows(tx[1].players @@ tx[2].players @@ players, lobbyID))
GetLobbyPlayerCountTx(t, lobbyID) == Cardinality(ActiveRows(TxPlayers(t), lobbyID))

\* SELECT EXISTS(SELECT 1 FROM players WHERE lobby_id = $1 AND user_id = $2
\*               AND is_active = true)
UserActiveRows(P, lobbyID, userID) ==
    {i \in ActiveRows(P, lobbyID) : P[i].userId = userID}
\* Variant: the check without AND is_active = true (the statement of IsMember).
IsMemberTxAnyRow(t, lobbyID, userID) ==
    \E i \in DOMAIN TxPlayers(t) : /\ TxPlayers(t)[i].lobbyId = lobbyID
                                    /\ TxPlayers(t)[i].userId = userID
\* Variant: the check reads the uncommitted rows of every open transaction.
IsMemberTxUncommitted(t, lobbyID, userID) ==
    UserActiveRows(tx[1].players @@ tx[2].players @@ players, lobbyID, userID) # {}
IsMemberTx(t, lobbyID, userID) == UserActiveRows(TxPlayers(t), lobbyID, userID) # {}

\* Variant: the update without AND is_active = true.
KickPlayerTxAllRows(t, lobbyID, targetUserID) ==
    LET P == TxPlayers(t)
        hit == {i \in DOMAIN P : P[i].lobbyId = lobbyID /\ P[i].userId = targetUserID}
    IN [t EXCEPT !.players =
            [i \in hit |-> [P[i] EXCEPT !.isActive = FALSE, !.leftAt = t.start]] @@ @]

\* Variant: the kick also hands the lobby to the kicked user.
KickPlayerTxNewLeader(t, lobbyID, targetUserID) ==
    LET P == TxPlayers(t)
        hit == UserActiveRows(P, lobbyID, targetUserID)
    IN [t EXCEPT !.players =
            [i \in hit |-> [P[i] EXCEPT !.isActive = FALSE, !.leftAt = t.start]] @@ @,
                 !.lobbies =
            (lobbyID :> [TxLobbies(t)[lobbyID] EXCEPT !.leaderId = targetUserID]) @@ @]

\* Variant: the kick also puts the lobby back to waiting.
KickPlayerTxReopensLobby(t, lobbyID, targetUserID) ==
    LET P == TxPlayers(t)
        hit == UserActiveRows(P, lobbyID, targetUserID)
    IN [t EXCEPT !.players =
            [i \in hit |-> [P[i] EXCEPT !.isActive = FALSE, !.leftAt = t.start]] @@ @,
                 !.lobbies =
            (lobbyID :> [TxLobbies(t)[lobbyID] EXCEPT !.status = LobbyStatusWaiting]) @@ @]

\* UPDATE players SET is_active = false, left_at = NOW()
\* WHERE lobby_id = $1 AND user_id = $2 AND is_active = true
KickPlayerTx(t, lobbyID, targetUserID) ==
    LET P == TxPlayers(t)
        hit == UserActiveRows(P, lobbyID, targetUserID)
    IN [t EXCEPT !.players =
            [i \in hit |-> [P[i] EXCEPT !.isActive = FALSE, !.leftAt = t.start]] @@ @]

\* The update waits while another open transaction has an uncommitted write
\* on a row it would touch.
KickWaits(p, lobbyID, targetUserID) ==
    \E i \in UserActiveRows(players, lobbyID, targetUserID) :
        \E o \in OtherTx(p) : i \in DOMAIN o.players

\* SELECT EXISTS(SELECT 1 FROM lobbies WHERE join_code = $1)   (on the pool)
codeExists(code) == \E l \in DOMAIN lobbies : lobbies[l].joinCode = code

\* The rows of a lobby ordered by joined_at ascending.
RECURSIVE OrderByJoinedAt(_, _)
OrderByJoinedAt(P, ids) ==
    IF ids = {} THEN <<>>
    ELSE LET first == CHOOSE i \in ids : \A j \in ids : P[i].joinedAt <= P[j].joinedAt
         IN <<first>> \o OrderByJoinedAt(P, ids \ {first})

PlayerInfo(id, userID, username, joinedAt, isActive) ==
    [id |-> id, userId |-> userID, username |-> username, joinedAt |-> joinedAt,
     isActive |-> isActive]

\* Variant: the join restricted to the rows with is_active = true.
GetLobbyDetailActiveOnly(lobbyID) ==
    LET ids == ActiveRows(players, lobbyID)
        ord == OrderByJoinedAt(players, ids)
    IN [lobbyId |-> lobbyID,
        joinCode |-> lobbies[lobbyID].joinCode,
        status |-> lobbies[lobbyID].status,
        leaderId |-> lobbies[lobbyID].leaderId,
        players |-> [k \in 1..Len(ord) |->
                        PlayerInfo(ord[k], players[ord[k]].userId,
                                   IF players[ord[k]].userId \in DOMAIN users
                                   THEN users[players[ord[k]].userId] ELSE "",
                                   players[ord[k]].joinedAt, players[ord[k]].isActive)]]

\* SELECT ... FROM lobbies l LEFT JOIN players p ON l.id = p.lobby_id
\* LEFT JOIN users u ON p.user_id = u.id WHERE l.id = $1 ORDER BY p.joined_at ASC
GetLobbyDetail(lobbyID) ==
    LET ids == {i \in DOMAIN players : players[i].lobbyId = lobbyID}
        ord == OrderByJoinedAt(players, ids)
    IN [lobbyId |-> lobbyID,
        joinCode |-> lobbies[lobbyID].joinCode,
        status |-> lobbies[lobbyID].status,
        leaderId |-> lobbies[lobbyID].leaderId,
        players |-> [k \in 1..Len(ord) |->
                        PlayerInfo(ord[k], players[ord[k]].userId,
                                   IF players[ord[k]].userId \in DOMAIN users
                                   THEN users[players[ord[k]].userId] ELSE "",
                                   players[ord[k]].joinedAt, players[ord[k]].isActive)]]

\* SPEC-MODELLED (the repository method is not among the sources; the statement
\* is the one the handler's tests expect):
\* UPDATE players SET is_active = $1 WHERE lobby_id = $2 AND id = $3
UpdateHits(P, lobbyID, playerID) ==
    {i \in DOMAIN P : i = playerID /\ P[i].lobbyId = lobbyID}
UpdatePlayerActiveStatusTx(t, lobbyID, playerID, isActive) ==
    LET P == TxPlayers(t)
    IN [t EXCEPT !.players =
            [i \in UpdateHits(P, lobbyID, playerID) |-> [P[i] EXCEPT !.isActive = isActive]] @@ @]
UpdateWaits(p, lobbyID, playerID) ==
    \E i \in UpdateHits(players, lobbyID, playerID) :
        \E o \in OtherTx(p) : i \in DOMAIN o.players

\* CURRENT_TIMESTAMP at a BEGIN: later than every timestamp taken before.
Max(S) == CHOOSE x \in S : \A y \in S : y <= x
Now ==
    1 + Max({NoTime} \cup {tx[q].start : q \in Procs}
            \cup {players[i].joinedAt : i \in DOMAIN players}
            \cup {players[i].leftAt : i \in DOMAIN players})

\* ============================================================== requests
Idle ==
    /\ users = EmptyFn
    /\ lobbies = EmptyFn
    /\ players = EmptyFn
    /\ pc = [p \in Procs |-> "idle"]
    /\ req = [p \in Procs |-> NoReq]
    /\ loc = [p \in Procs |-> NoLoc]
    /\ tx = [p \in Procs |-> NoTx]
    /\ resp = [p \in Procs |-> NoResp]
    /\ calls = [p \in Procs |-> 0]
    /\ dirty = [p \in Procs |-> FALSE]
    /\ faulted = [p \in Procs |-> FALSE]

Store == <<users, lobbies, players>>

\* A response is handed to the client before any other request moves on.
NoneDone == \A q \in Procs : pc[q] # "done"
At(p, label) == pc[p] = label /\ NoneDone

InFlight == {p \in Procs : pc[p] \notin {"idle", "done"}}
\* Requests in flight that will insert a lobby / a players row.
OpenCreates == Cardinality({p \in InFlight : req[p].op = "create"})
OpenInserts == Cardinality({p \in InFlight : req[p].op \in {"create", "join"}})

\* The users that send the next request.  A workload with ordered arrival lets
\* an unknown user call only when every user with a smaller id is known:
\* unknown users are interchangeable, so one order of arrival stands for all.
Callers ==
    IF workload.ordered
    THEN {u \in workload.users :
             \A v \in workload.users :
                v < u => \/ v \in DOMAIN users
                         \/ \E q \in InFlight : req[q].user = v}
    ELSE workload.users

\* A new request takes the lowest free slot of the workload.slots the clients
\* keep busy side by side.
CanStart(p) ==
    /\ At(p, "idle")
    /\ p <= workload.slots
    /\ \A q \in Procs : q < p => pc[q] # "idle"
    /\ Now <= workload.maxClock

\* history bookkeeping of one step of slot p: n storage calls were made, err
\* tells whether one of them failed
Account(p, n, err) ==
    /\ UNCHANGED workload
    /\ calls' = [calls EXCEPT ![p] = @ + n]
    /\ faulted' = [faulted EXCEPT ![p] = @ \/ err]
    /\ dirty' = [dirty EXCEPT ![p] = @ \/ users' # users \/ lobbies' # lobbies
                                       \/ players' # players]

\* The handler writes a response and returns; the deferred tx.Rollback()
\* discards the writes of a transaction that is still open.
\* Variant: a return path without the deferred rollback.
RollbackMissing(t) == t
Rollback(t) == NoTx
Write(p, status, code, body) ==
    /\ resp' = [resp EXCEPT ![p] = [status |-> status, code |-> code, body |-> body]]
    /\ pc' = [pc EXCEPT ![p] = "done"]
    /\ tx' = [tx EXCEPT ![p] = Rollback(@)]

WriteError(p, status, code) == Write(p, status, code, <<>>)
WriteInternalError(p) == WriteError(p, StatusInternalServerError, "internal_error")
WriteNotFound(p) == WriteError(p, StatusNotFound, "not_found")
WriteForbidden(p) == WriteError(p, StatusForbidden, "forbidden")
WriteBadRequest(p) == WriteError(p, StatusBadRequest, "bad_request")
WriteNoContent(p) == Write(p, StatusNoContent, "", <<>>)

Goto(p, label) == pc' = [pc EXCEPT ![p] = label]

\* Variant: a commit that reports an error after the writes were applied.
CommitDespiteError(t, err) ==
    /\ users' = t.users @@ users
    /\ lobbies' = t.lobbies @@ lobbies
    /\ players' = t.players @@ players

\* Variant: the kick as a DELETE: the rows the transaction deactivated are
\* gone once it commits.
CommitDeletingKicked(t, err) ==
    LET gone == {i \in DOMAIN t.players : ~t.players[i].isActive}
        all == t.players @@ players
    IN /\ users' = IF err THEN users ELSE t.users @@ users
       /\ lobbies' = IF err THEN lobbies ELSE t.lobbies @@ lobbies
       /\ players' = IF err THEN players ELSE [i \in DOMAIN all \ gone |-> all[i]]

\* Variant: a commit that loses the transaction's players rows.
CommitWithoutPlayers(t, err) ==
    /\ users' = IF err THEN users ELSE t.users @@ users
    /\ lobbies' = IF err THEN lobbies ELSE t.lobbies @@ lobbies
    /\ players' = players

\* tx.Commit(): the transaction's writes become the committed rows; a commit
\* that returns an error has written nothing.
Commit(t, err) ==
    /\ users' = IF err THEN users ELSE t.users @@ users
    /\ lobbies' = IF err THEN lobbies ELSE t.lobbies @@ lobbies
    /\ players' = IF err THEN players ELSE t.players @@ players

\* ------------------------------------------------- POST /lobbies (create)
\* AuthMiddleware, then CreateLobbyHandler up to repo.BeginTx.
CreateBegin(p) ==
    /\ CanStart(p)
    /\ Cardinality(DOMAIN lobbies) + OpenCreates < workload.maxLobbies
    /\ Cardinality(DOMAIN players) + OpenInserts < workload.maxRows
    /\ \E u \in workload.creators, n \in workload.names, err \in workload.faults :
        /\ req' = [req EXCEPT ![p] = [NoReq EXCEPT !.op = "create", !.user = u, !.name = n]]
        /\ IF err
           THEN WriteInternalError(p)
           ELSE /\ tx' = [tx EXCEPT ![p] = BeginTx(Now)]
                /\ Goto(p, "cl_user")
                /\ UNCHANGED resp
        /\ UNCHANGED <<Store, loc>>
        /\ Account(p, 1, err)

\* 1. repo.CreateUserIfNotExistsTx
CreateUser(p) ==
    /\ At(p, "cl_user")
    /\ \E err \in workload.faults :
        /\ IF err
           THEN WriteInternalError(p)
           ELSE /\ ~UserInsertWaits(p, req[p].user)
                /\ tx' = [tx EXCEPT ![p] = CreateUserIfNotExistsTx(@, req[p].user, req[p].name)]
                /\ Goto(p, "cl_gen")
                /\ UNCHANGED resp
        /\ UNCHANGED <<Store, req, loc>>
        /\ Account(p, 1, err)

\* Generator.GenerateJoinCode, pass number attempt of the loop
\* for attempt := 1; attempt <= MaxRetries; attempt++: the candidate code,
\* what codeExists answered (exists, err) and what the pass does: return the
\* code, return an error, or go round again.
ErrMaxRetriesExceeded == "failed to generate unique join code after maximum retries"
ErrCheckCollision == "failed to check code collision"
\* Variant: the loop written attempt <= MaxRetries + 1, one pass too many.
GenerateJoinCodeOneMore(attempt, code, exists, err) ==
    IF err THEN [return |-> TRUE, code |-> <<>>, err |-> ErrCheckCollision]
    ELSE IF ~exists THEN [return |-> TRUE, code |-> code, err |-> ""]
    ELSE IF attempt + 1 <= MaxRetries + 1 THEN [return |-> FALSE, code |-> <<>>, err |-> ""]
    ELSE [return |-> TRUE, code |-> <<>>, err |-> ErrMaxRetriesExceeded]

\* Variant: an error of codeExists taken for a collision and retried.
GenerateJoinCodeRetryOnError(attempt, code, exists, err) ==
    IF ~err /\ ~exists THEN [return |-> TRUE, code |-> code, err |-> ""]
    ELSE IF attempt + 1 <= MaxRetries THEN [return |-> FALSE, code |-> <<>>, err |-> ""]
    ELSE [return |-> TRUE, code |-> <<>>, err |-> ErrMaxRetriesExceeded]

GenerateJoinCode(attempt, code, exists, err) ==
    IF err THEN [return |-> TRUE, code |-> <<>>, err |-> ErrCheckCollision]
    ELSE IF ~exists THEN [return |-> TRUE, code |-> code, err |-> ""]
    ELSE IF attempt + 1 <= MaxRetries THEN [return |-> FALSE, code |-> <<>>, err |-> ""]
    ELSE [return |-> TRUE, code |-> <<>>, err |-> ErrMaxRetriesExceeded]

\* 2. codeGen.GenerateJoinCode: one pass of the retry loop, i.e. one random
\* code and one codeExists query
CreateGenerate(p) ==
    /\ At(p, "cl_gen")
    /\ \E bytes \in workload.randBytes, err \in workload.faults :
        LET attempt == loc[p].attempt + 1
            code == ToUpper(generateRandomCode(bytes))
            pass == GenerateJoinCode(attempt, code, codeExists(code), err)
        IN
        /\ loc' = [loc EXCEPT ![p].attempt = attempt, ![p].bytes = bytes,
                              ![p].joinCode = pass.code, ![p].genErr = pass.err]
        /\ IF ~pass.return
           THEN UNCHANGED <<pc, resp, tx>>
           ELSE IF pass.err # ""
           THEN WriteInternalError(p)
           ELSE Goto(p, "cl_lobby") /\ UNCHANGED <<resp, tx>>
        /\ UNCHANGED <<Store, req>>
        /\ Account(p, 1, err)

\* Variant: a rejected insert sent back to the generator for another code.
CreateLobbyRetry(p) ==
    /\ At(p, "cl_lobby")
    /\ \E err \in workload.faults :
        /\ IF err
           THEN WriteInternalError(p) /\ UNCHANGED loc
           ELSE /\ ~LobbyInsertWaits(p, loc[p].joinCode)
                /\ IF JoinCodeTaken(tx[p], loc[p].joinCode)
                   THEN /\ loc' = [loc EXCEPT ![p].attempt = 0, ![p].joinCode = <<>>]
                        /\ Goto(p, "cl_gen")
                        /\ UNCHANGED <<resp, tx>>
                   ELSE LET id == Min(FreeLobbyIds) IN
                        /\ tx' = [tx EXCEPT ![p] = CreateLobbyTx(@, id, loc[p].joinCode, req[p].user)]
                        /\ loc' = [loc EXCEPT ![p].lobbyID = id]
                        /\ Goto(p, "cl_player")
                        /\ UNCHANGED resp
        /\ UNCHANGED <<Store, req>>
        /\ Account(p, 1, err)

\* 3. repo.CreateLobbyTx
CreateLobby(p) ==
    /\ At(p, "cl_lobby")
    /\ \E err \in workload.faults :
        /\ IF err
           THEN WriteInternalError(p) /\ UNCHANGED loc
           ELSE /\ ~LobbyInsertWaits(p, loc[p].joinCode)
                /\ IF JoinCodeTaken(tx[p], loc[p].joinCode)
                   THEN WriteInternalError(p) /\ UNCHANGED loc
                   ELSE LET id == Min(FreeLobbyIds) IN
                        /\ tx' = [tx EXCEPT ![p] = CreateLobbyTx(@, id, loc[p].joinCode, req[p].user)]
                        /\ loc' = [loc EXCEPT ![p].lobbyID = id]
                        /\ Goto(p, "cl_player")
                        /\ UNCHANGED resp
        /\ UNCHANGED <<Store, req>>
        /\ Account(p, 1, err)

\* 4. repo.AddPlayerTx
CreatePlayer(p) ==
    /\ At(p, "cl_player")
    /\ \E err \in workload.faults :
        /\ IF err
           THEN WriteInternalError(p) /\ UNCHANGED loc
           ELSE LET id == Min(FreePlayerIds) IN
                /\ tx' = [tx EXCEPT ![p] = AddPlayerTx(@, id, loc[p].lobbyID, req[p].user)]
                /\ loc' = [loc EXCEPT ![p].playerID = id, ![p].joinedAt = tx[p].start]
                /\ Goto(p, "cl_commit")
                /\ UNCHANGED resp
        /\ UNCHANGED <<Store, req>>
        /\ Account(p, 1, err)

\* The body of the 201 response, built from the handler's local variables.
CreateLobbyResponse(p) ==
    [lobbyId |-> loc[p].lobbyID,
     joinCode |-> loc[p].joinCode,
     status |-> LobbyStatusWaiting,
     leaderId |-> req[p].user,
     players |-> <<PlayerInfo(loc[p].playerID, req[p].user, req[p].name,
                              loc[p].joinedAt, TRUE)>>]

\* tx.Commit and 5. the response
CreateCommit(p) ==
    /\ At(p, "cl_commit")
    /\ \E err \in workload.faults :
        /\ Commit(tx[p], err)
        /\ IF err
           THEN WriteInternalError(p)
           ELSE Write(p, StatusCreated, "", <<CreateLobbyResponse(p)>>)
        /\ UNCHANGED <<req, loc>>
        /\ Account(p, 1, err)

\* ---------------------------------------------- POST /lobbies/join (join)
\* AuthMiddleware, then JoinLobbyHandler up to repo.BeginTx.
JoinBegin(p) ==
    /\ CanStart(p)
    /\ Cardinality(DOMAIN players) + OpenInserts < workload.maxRows
    /\ \E u \in Callers, n \in workload.names, c \in workload.joinCodes, err \in workload.faults :
        /\ req' = [req EXCEPT ![p] = [NoReq EXCEPT !.op = "join", !.user = u, !.name = n,
                                                   !.code = c]]
        /\ UNCHANGED <<Store, loc>>
        /\ IF Len(c) # CodeLength
           THEN /\ ~err
                /\ WriteBadRequest(p)
                /\ Account(p, 0, FALSE)
           ELSE /\ IF err
                   THEN WriteInternalError(p)
                   ELSE /\ tx' = [tx EXCEPT ![p] = BeginTx(Now)]
                        /\ Goto(p, "jl_find")
                        /\ UNCHANGED resp
                /\ Account(p, 1, err)

\* 1. repo.GetLobbyByJoinCodeTx and 2. the status check
JoinFind(p) ==
    /\ At(p, "jl_find")
    /\ \E err \in workload.faults :
        LET found == GetLobbyByJoinCodeTx(tx[p], req[p].code) IN
        /\ IF err
           THEN WriteInternalError(p) /\ UNCHANGED loc
           ELSE IF found = {}
           THEN WriteNotFound(p) /\ UNCHANGED loc
           ELSE LET lobby == CHOOSE l \in found : TRUE IN
                IF TxLobbies(tx[p])[lobby].status # LobbyStatusWaiting
                THEN WriteError(p, StatusConflict, "lobby_not_joinable") /\ UNCHANGED loc
                ELSE /\ loc' = [loc EXCEPT ![p].lobbyID = lobby]
                     /\ Goto(p, "jl_count")
                     /\ UNCHANGED <<resp, tx>>
        /\ UNCHANGED <<Store, req>>
        /\ Account(p, 1, err)

\* 3. repo.GetLobbyPlayerCountTx
JoinCount(p) ==
    /\ At(p, "jl_count")
    /\ \E err \in workload.faults :
        LET playerCount == GetLobbyPlayerCountTx(tx[p], loc[p].lobbyID) IN
        /\ IF err
           THEN WriteInternalError(p)
           ELSE IF playerCount >= maxPlayers
           THEN WriteError(p, StatusConflict, "lobby_full")
           ELSE Goto(p, "jl_member") /\ UNCHANGED <<resp, tx>>
        /\ UNCHANGED <<Store, req, loc>>
        /\ Account(p, 1, err)

\* 4. repo.IsMemberTx
JoinMember(p) ==
    /\ At(p, "jl_member")
    /\ \E err \in workload.faults :
        LET isMember == IsMemberTx(tx[p], loc[p].lobbyID, req[p].user) IN
        /\ IF err
           THEN WriteInternalError(p)
           ELSE IF isMember
           THEN WriteError(p, StatusConflict, "already_in_lobby")
           ELSE Goto(p, "jl_user") /\ UNCHANGED <<resp, tx>>
        /\ UNCHANGED <<Store, req, loc>>
        /\ Account(p, 1, err)

\* 5. repo.CreateUserIfNotExistsTx
JoinUser(p) ==
    /\ At(p, "jl_user")
    /\ \E err \in workload.faults :
        /\ IF err
           THEN WriteInternalError(p)
           ELSE /\ ~UserInsertWaits(p, req[p].user)
                /\ tx' = [tx EXCEPT ![p] = CreateUserIfNotExistsTx(@, req[p].user, req[p].name)]
                /\ Goto(p, "jl_add")
                /\ UNCHANGED resp
        /\ UNCHANGED <<Store, req, loc>>
        /\ Account(p, 1, err)

\* 6. repo.AddPlayerTx
JoinAdd(p) ==
    /\ At(p, "jl_add")
    /\ \E err \in workload.faults :
        /\ IF err
           THEN WriteInternalError(p) /\ UNCHANGED loc
           ELSE LET id == Min(FreePlayerIds) IN
                /\ tx' = [tx EXCEPT ![p] = AddPlayerTx(@, id, loc[p].lobbyID, req[p].user)]
                /\ loc' = [loc EXCEPT ![p].playerID = id, ![p].joinedAt = tx[p].start]
                /\ Goto(p, "jl_commit")
                /\ UNCHANGED resp
        /\ UNCHANGED <<Store, req>>
        /\ Account(p, 1, err)

\* tx.Commit
JoinCommit(p) ==
    /\ At(p, "jl_commit")
    /\ \E err \in workload.faults :
        /\ Commit(tx[p], err)
        /\ IF err
           THEN WriteInternalError(p)
           ELSE /\ tx' = [tx EXCEPT ![p] = NoTx]
                /\ Goto(p, "jl_detail")
                /\ UNCHANGED resp
        /\ UNCHANGED <<req, loc>>
        /\ Account(p, 1, err)

\* 7. repo.GetLobbyDetail and the 200 response
JoinDetail(p) ==
    /\ At(p, "jl_detail")
    /\ \E err \in workload.faults :
        /\ IF err \/ ~LobbyExists(loc[p].lobbyID)
           THEN WriteInternalError(p)
           ELSE Write(p, StatusOK, "", <<GetLobbyDetail(loc[p].lobbyID)>>)
        /\ UNCHANGED <<Store, req, loc>>
        /\ Account(p, 1, err)

\* ------------------------------------- POST /lobbies/{lobby_id}/kick (kick)
\* AuthMiddleware, then the RequireLobbyLeader middleware the router puts in
\* front of KickPlayerHandler.
RequireLobbyLeader(p) ==
    /\ CanStart(p)
    /\ \E u \in Callers, l \in workload.lobbyIds, t \in workload.targets, err \in workload.faults :
        /\ req' = [req EXCEPT ![p] = [NoReq EXCEPT !.op = "kick", !.user = u, !.lobby = l,
                                                   !.target = t]]
        /\ IF err
           THEN WriteInternalError(p)
           ELSE IF ~LobbyExists(l)
           THEN WriteNotFound(p)
           ELSE IF GetLobbyLeaderID(l) # u
           THEN WriteForbidden(p)
           ELSE Goto(p, "kp_begin") /\ UNCHANGED <<resp, tx>>
        /\ UNCHANGED <<Store, loc>>
        /\ Account(p, 1, err)

\* Variant: the handler without the cannot-kick-self check.
KickBeginNoSelfCheck(p) ==
    /\ At(p, "kp_begin")
    /\ \E err \in workload.faults :
        /\ UNCHANGED <<Store, req, loc>>
        /\ IF err
           THEN WriteInternalError(p)
           ELSE /\ tx' = [tx EXCEPT ![p] = BeginTx(Now)]
                /\ Goto(p, "kp_leader")
                /\ UNCHANGED resp
        /\ Account(p, 1, err)

\* KickPlayerHandler up to repo.BeginTx: the cannot-kick-self check
KickBegin(p) ==
    /\ At(p, "kp_begin")
    /\ \E err \in workload.faults :
        /\ UNCHANGED <<Store, req, loc>>
        /\ IF req[p].target = req[p].user
           THEN /\ ~err
                /\ WriteError(p, StatusBadRequest, "cannot_kick_self")
                /\ Account(p, 0, FALSE)
           ELSE /\ IF err
                   THEN WriteInternalError(p)
                   ELSE /\ tx' = [tx EXCEPT ![p] = BeginTx(Now)]
                        /\ Goto(p, "kp_leader")
                        /\ UNCHANGED resp
                /\ Account(p, 1, err)

\* 1. repo.GetLobbyLeaderID and the leader check
KickLeader(p) ==
    /\ At(p, "kp_leader")
    /\ \E err \in workload.faults :
        /\ IF err
           THEN WriteInternalError(p) /\ UNCHANGED loc
           ELSE IF ~LobbyExists(req[p].lobby)
           THEN WriteNotFound(p) /\ UNCHANGED loc
           ELSE IF GetLobbyLeaderID(req[p].lobby) # req[p].user
           THEN WriteForbidden(p) /\ UNCHANGED loc
           ELSE /\ loc' = [loc EXCEPT ![p].leaderID = GetLobbyLeaderID(req[p].lobby)]
                /\ Goto(p, "kp_member")
                /\ UNCHANGED <<resp, tx>>
        /\ UNCHANGED <<Store, req>>
        /\ Account(p, 1, err)

\* 2. repo.IsMemberTx on the target
KickMember(p) ==
    /\ At(p, "kp_member")
    /\ \E err \in workload.faults :
        LET isMember == IsMemberTx(tx[p], req[p].lobby, req[p].target) IN
        /\ IF err
           THEN WriteInternalError(p)
           ELSE IF ~isMember
           THEN WriteError(p, StatusNotFound, "player_not_in_lobby")
           ELSE Goto(p, "kp_kick") /\ UNCHANGED <<resp, tx>>
        /\ UNCHANGED <<Store, req, loc>>
        /\ Account(p, 1, err)

\* 3. repo.KickPlayerTx
KickUpdate(p) ==
    /\ At(p, "kp_kick")
    /\ \E err \in workload.faults :
        /\ IF err
           THEN WriteInternalError(p)
           ELSE /\ ~KickWaits(p, req[p].lobby, req[p].target)
                /\ tx' = [tx EXCEPT ![p] = KickPlayerTx(@, req[p].lobby, req[p].target)]
                /\ Goto(p, "kp_commit")
                /\ UNCHANGED resp
        /\ UNCHANGED <<Store, req, loc>>
        /\ Account(p, 1, err)

\* tx.Commit and the 204 response
KickCommit(p) ==
    /\ At(p, "kp_commit")
    /\ \E err \in workload.faults :
        /\ Commit(tx[p], err)
        /\ IF err
           THEN WriteInternalError(p)
           ELSE WriteNoContent(p)
        /\ UNCHANGED <<req, loc>>
        /\ Account(p, 1, err)

\* ------------------------------------------ GET /lobbies/{lobby_id} (get)
\* AuthMiddleware, then the RequireLobbyMember middleware: the leader lookup
RequireLobbyMember(p) ==
    /\ CanStart(p)
    /\ \E u \in Callers, l \in workload.lobbyIds, err \in workload.faults :
        /\ req' = [req EXCEPT ![p] = [NoReq EXCEPT !.op = "get", !.user = u, !.lobby = l]]
        /\ IF err
           THEN WriteInternalError(p)
           ELSE IF ~LobbyExists(l)
           THEN WriteNotFound(p)
           ELSE IF GetLobbyLeaderID(l) = u
           THEN Goto(p, "gl_detail") /\ UNCHANGED <<resp, tx>>
           ELSE Goto(p, "gl_member") /\ UNCHANGED <<resp, tx>>
        /\ UNCHANGED <<Store, loc>>
        /\ Account(p, 1, err)

\* RequireLobbyMember: repo.IsMember for a caller who is not the leader
RequireLobbyMemberCheck(p) ==
    /\ At(p, "gl_member")
    /\ \E err \in workload.faults :
        /\ IF err
           THEN WriteInternalError(p)
           ELSE IF ~IsMember(req[p].lobby, req[p].user)
           THEN WriteForbidden(p)
           ELSE Goto(p, "gl_detail") /\ UNCHANGED <<resp, tx>>
        /\ UNCHANGED <<Store, req, loc>>
        /\ Account(p, 1, err)

\* Variant: the inline check counting active players only.
InlineIsMemberActiveOnly(response, userID) ==
    \/ response.leaderId = userID
    \/ \E k \in 1..Len(response.players) : /\ response.players[k].userId = userID
                                            /\ response.players[k].isActive

\* The handler's own authorization over the detail it has read.
InlineIsMember(response, userID) ==
    \/ response.leaderId = userID
    \/ \E k \in 1..Len(response.players) : response.players[k].userId = userID

\* GetLobbyHandler: repo.GetLobbyDetail and the inline membership check
GetLobby(p) ==
    /\ At(p, "gl_detail")
    /\ \E err \in workload.faults :
        /\ IF err
           THEN WriteInternalError(p)
           ELSE IF ~LobbyExists(req[p].lobby)
           THEN WriteNotFound(p)
           ELSE IF ~InlineIsMember(GetLobbyDetail(req[p].lobby), req[p].user)
           THEN WriteForbidden(p)
           ELSE Write(p, StatusOK, "", <<GetLobbyDetail(req[p].lobby)>>)
        /\ UNCHANGED <<Store, req, loc>>
        /\ Account(p, 1, err)

\* ------- PUT /internal/lobbies/{lobby_id}/players/{player_id}/active (set)
\* UpdatePlayerActiveStatusHandler up to repo.BeginTx (no middleware)
SetActiveBegin(p) ==
    /\ CanStart(p)
    /\ \E l \in workload.lobbyIds, i \in workload.playerIds, a \in BOOLEAN, err \in workload.faults :
        /\ req' = [req EXCEPT ![p] = [NoReq EXCEPT !.op = "set", !.lobby = l, !.target = i,
                                                   !.active = a]]
        /\ IF err
           THEN WriteInternalError(p)
           ELSE /\ tx' = [tx EXCEPT ![p] = BeginTx(Now)]
                /\ Goto(p, "ua_lobby")
                /\ UNCHANGED resp
        /\ UNCHANGED <<Store, loc>>
        /\ Account(p, 1, err)

\* 1. repo.GetLobbyLeaderID: the lobby exists
SetActiveLobby(p) ==
    /\ At(p, "ua_lobby")
    /\ \E err \in workload.faults :
        /\ IF err
           THEN WriteInternalError(p)
           ELSE IF ~LobbyExists(req[p].lobby)
           THEN WriteNotFound(p)
           ELSE Goto(p, "ua_member") /\ UNCHANGED <<resp, tx>>
        /\ UNCHANGED <<Store, req, loc>>
        /\ Account(p, 1, err)

\* 2. repo.IsMemberTx, called with the player id in the place of the user id
SetActiveMember(p) ==
    /\ At(p, "ua_member")
    /\ \E err \in workload.faults :
        LET playerExists == IsMemberTx(tx[p], req[p].lobby, req[p].target) IN
        /\ IF err
           THEN WriteInternalError(p)
           ELSE IF ~playerExists
           THEN WriteNotFound(p)
           ELSE Goto(p, "ua_update") /\ UNCHANGED <<resp, tx>>
        /\ UNCHANGED <<Store, req, loc>>
        /\ Account(p, 1, err)

\* 3. repo.UpdatePlayerActiveStatusTx; sql.ErrNoRows when no row was updated
SetActiveUpdate(p) ==
    /\ At(p, "ua_update")
    /\ \E err \in workload.faults :
        /\ IF err
           THEN WriteInternalError(p)
           ELSE IF UpdateHits(TxPlayers(tx[p]), req[p].lobby, req[p].target) = {}
           THEN WriteNotFound(p)
           ELSE /\ ~UpdateWaits(p, req[p].lobby, req[p].target)
                /\ tx' = [tx EXCEPT ![p] = UpdatePlayerActiveStatusTx(@, req[p].lobby,
                                                req[p].target, req[p].active)]
                /\ Goto(p, "ua_commit")
                /\ UNCHANGED resp
        /\ UNCHANGED <<Store, req, loc>>
        /\ Account(p, 1, err)

\* tx.Commit and the 204 response
SetActiveCommit(p) ==
    /\ At(p, "ua_commit")
    /\ \E err \in workload.faults :
        /\ Commit(tx[p], err)
        /\ IF err
           THEN WriteInternalError(p)
           ELSE WriteNoContent(p)
        /\ UNCHANGED <<req, loc>>
        /\ Account(p, 1, err)

\* --------------------------------------------------------- environment
\* The response has been sent; the slot is free for the next request.
Return(p) ==
    /\ pc[p] = "done"
    /\ pc' = [pc EXCEPT ![p] = "idle"]
    /\ req' = [req EXCEPT ![p] = NoReq]
    /\ loc' = [loc EXCEPT ![p] = NoLoc]
    /\ resp' = [resp EXCEPT ![p] = NoResp]
    /\ calls' = [calls EXCEPT ![p] = 0]
    /\ dirty' = [dirty EXCEPT ![p] = FALSE]
    /\ faulted' = [faulted EXCEPT ![p] = FALSE]
    /\ UNCHANGED <<workload, Store, tx>>

\* SPEC-MODELLED: the game service moves a waiting lobby out of "waiting";
\* no handler of this service does.  In a workload that sends one request at
\* a time the game starts between two requests.
StartGame ==
    /\ NoneDone
    /\ workload.slots = 1 => InFlight = {}
    /\ \E l \in DOMAIN lobbies :
        /\ lobbies[l].status = LobbyStatusWaiting
        /\ \A q \in Procs : l \notin DOMAIN tx[q].lobbies
        /\ lobbies' = [lobbies EXCEPT ![l].status = LobbyStatusInGame]
    /\ UNCHANGED <<workload, users, players, pc, req, loc, tx, resp, calls, dirty, faulted>>

\* ---------------------------------------------------------- workloads
\* Requests of all five routes, one at a time, any storage call may fail.
Sequential ==
    [slots |-> 1, ordered |-> FALSE, faults |-> BOOLEAN, creators |-> {1, 2}, users |-> UserIds,
     names |-> Names, randBytes |-> FewBytes, joinCodes |-> JoinCodes, lobbyIds |-> LobbyIds,
     targets |-> UserIds, playerIds |-> RowIds(MaxRows), maxLobbies |-> MaxLobbies,
     maxRows |-> MaxRows, maxClock |-> MaxClock]

Init == workload = Sequential /\ Idle

\* Two requests side by side, no storage failures.
Concurrent ==
    [slots |-> 2, ordered |-> FALSE, faults |-> {FALSE}, creators |-> {1, 2}, users |-> UserIds,
     names |-> {"Alice"}, randBytes |-> FewBytes,
     joinCodes |-> {ToUpper(generateRandomCode(SameBytes(0)))}, lobbyIds |-> {21},
     targets |-> {2, 3}, playerIds |-> {3}, maxLobbies |-> MaxLobbies,
     maxRows |-> MaxRows, maxClock |-> MaxClock - 2]

InitConcurrent == workload = Concurrent /\ Idle

Next ==
    \/ \E p \in Procs :
        \/ CreateBegin(p)
        \/ CreateUser(p)
        \/ CreateGenerate(p)
        \/ CreateLobby(p)
        \/ CreatePlayer(p)
        \/ CreateCommit(p)
        \/ JoinBegin(p)
        \/ JoinFind(p)
        \/ JoinCount(p)
        \/ JoinMember(p)
        \/ JoinUser(p)
        \/ JoinAdd(p)
        \/ JoinCommit(p)
        \/ JoinDetail(p)
        \/ RequireLobbyLeader(p)
        \/ KickBegin(p)
        \/ KickLeader(p)
        \/ KickMember(p)
        \/ KickUpdate(p)
        \/ KickCommit(p)
        \/ RequireLobbyMember(p)
        \/ RequireLobbyMemberCheck(p)
        \/ GetLobby(p)
        \/ SetActiveBegin(p)
        \/ SetActiveLobby(p)
        \/ SetActiveMember(p)
        \/ SetActiveUpdate(p)
        \/ SetActiveCommit(p)
        \/ Return(p)
    \/ StartGame

Spec == Init /\ [][Next]_vars

\* Create, join and kick requests of enough users to fill one lobby, one at a
\* time, no storage failures.
Capacity ==
    [slots |-> 1, ordered |-> TRUE, faults |-> {FALSE}, creators |-> {1},
     users |-> ManyUserIds,
     names |-> {"Alice"}, randBytes |-> FewBytes, joinCodes |-> JoinCodes, lobbyIds |-> {21},
     targets |-> {2}, playerIds |-> {}, maxLobbies |-> 1,
     maxRows |-> maxPlayers + 1, maxClock |-> maxPlayers + MaxClock - 2]

InitCapacity == workload = Capacity /\ Idle

NextCapacity ==
    \/ \E p \in Procs :
        \/ CreateBegin(p)
        \/ CreateUser(p)
        \/ CreateGenerate(p)
        \/ CreateLobby(p)
        \/ CreatePlayer(p)
        \/ CreateCommit(p)
        \/ JoinBegin(p)
        \/ JoinFind(p)
        \/ JoinCount(p)
        \/ JoinMember(p)
        \/ JoinUser(p)
        \/ JoinAdd(p)
        \/ JoinCommit(p)
        \/ JoinDetail(p)
        \/ RequireLobbyLeader(p)
        \/ KickBegin(p)
        \/ KickLeader(p)
        \/ KickMember(p)
        \/ KickUpdate(p)
        \/ KickCommit(p)
        \/ Return(p)
    \/ StartGame

SpecCapacity == InitCapacity /\ [][NextCapacity]_vars
SpecConcurrent == InitConcurrent /\ [][Next]_vars

\* ================================================================ claims
\* C1: in every reachable state, concurrent CreateLobby calls included, any
\* two distinct committed lobbies have different join codes.
UniqueJoinCodes ==
    \A a, b \in DOMAIN lobbies : a # b => lobbies[a].joinCode # lobbies[b].joinCode

\* C1 witness: a create drew a code that was free when generated; a
\* concurrent create committed the same code first, and the insert failed.
UniqueJoinCodesWitness ==
    \E p \in Procs :
        /\ pc[p] = "done" /\ req[p].op = "create"
        /\ resp[p].status = StatusInternalServerError
        /\ loc[p].joinCode # <<>> /\ codeExists(loc[p].joinCode)
        /\ Cardinality(DOMAIN lobbies) >= 1

\* C2: after any sequence of create, join and kick requests that run one at
\* a time, no lobby has more than maxPlayers active memberships.
AtMostMaxPlayersActive ==
    \A l \in DOMAIN lobbies : Cardinality(ActiveRows(players, l)) <= maxPlayers

\* C2 witness: a join was turned away by a lobby with maxPlayers active rows.
AtMostMaxPlayersActiveWitness ==
    \E p \in Procs :
        /\ pc[p] = "done" /\ req[p].op = "join" /\ resp[p].code = "lobby_full"
        /\ \E l \in DOMAIN lobbies : Cardinality(ActiveRows(players, l)) = maxPlayers

\* C3: a kick changes the store only when the caller is the lobby's leader;
\* a kick by any other caller on an existing lobby changes nothing and, when
\* no storage call failed, is answered 403 forbidden.
KickOnlyByLeader ==
    \A p \in Procs :
        (pc[p] = "done" /\ req[p].op = "kick") =>
            /\ dirty[p] => /\ LobbyExists(req[p].lobby)
                           /\ lobbies[req[p].lobby].leaderId = req[p].user
            /\ (/\ LobbyExists(req[p].lobby)
                /\ lobbies[req[p].lobby].leaderId # req[p].user
                /\ ~faulted[p])
               => (resp[p].status = StatusForbidden /\ resp[p].code = "forbidden")

\* C3 witness: a user who is not the leader asked to kick an active member
\* and was answered 403.
KickOnlyByLeaderWitness ==
    \E p \in Procs :
        /\ pc[p] = "done" /\ req[p].op = "kick"
        /\ LobbyExists(req[p].lobby)
        /\ lobbies[req[p].lobby].leaderId # req[p].user
        /\ req[p].target # req[p].user
        /\ UserActiveRows(players, req[p].lobby, req[p].target) # {}
        /\ resp[p].status = StatusForbidden /\ ~dirty[p]

\* C4: a create request that fails at any step (user upsert, code
\* generation, lobby insert, membership insert, commit) leaves the committed
\* tables as they were: no row written by the call stays.
FailedCreateWritesNothing ==
    \A p \in Procs :
        (pc[p] = "done" /\ req[p].op = "create" /\ resp[p].status # StatusCreated)
        => ~dirty[p]

\* C4 witness: the commit of a create failed after the user, the lobby and
\* the membership had been inserted in the transaction.
FailedCreateWritesNothingWitness ==
    \E p \in Procs :
        /\ pc[p] = "done" /\ req[p].op = "create"
        /\ resp[p].status = StatusInternalServerError
        /\ faulted[p] /\ loc[p].playerID # 0
        /\ req[p].user \notin DOMAIN users
        /\ ~LobbyExists(loc[p].lobbyID)

\* C5: a join that fails is answered with the error of the first failing
\* check, in the order: code length (before any storage call), lobby not
\* found, status not waiting, maxPlayers active rows (full), caller already
\* an active member; a join that passes them all is answered 200.
JoinErrorOrder ==
    \A p \in Procs :
        (pc[p] = "done" /\ req[p].op = "join") =>
            LET c == req[p].code
                found == {l \in DOMAIN lobbies : lobbies[l].joinCode = c}
                l == CHOOSE x \in found : TRUE
            IN IF resp[p].status = StatusOK
               THEN /\ Len(c) = CodeLength /\ found # {}
                    /\ dirty[p]
                    /\ UserActiveRows(players, l, req[p].user) # {}
               ELSE /\ ~dirty[p]
                    /\ resp[p].code =
                        IF Len(c) # CodeLength THEN "bad_request"
                        ELSE IF found = {} THEN "not_found"
                        ELSE IF lobbies[l].status # LobbyStatusWaiting
                             THEN "lobby_not_joinable"
                        ELSE IF Cardinality(ActiveRows(players, l)) >= maxPlayers
                             THEN "lobby_full"
                        ELSE IF UserActiveRows(players, l, req[p].user) # {}
                             THEN "already_in_lobby"
                        ELSE "none"
                    /\ Len(c) # CodeLength => calls[p] = 0

\* C5 witness: an active member of a full lobby joined again and was told
\* the lobby is full.
JoinErrorOrderWitness ==
    \E p \in Procs :
        /\ pc[p] = "done" /\ req[p].op = "join" /\ resp[p].code = "lobby_full"
        /\ \E l \in DOMAIN lobbies :
            /\ lobbies[l].joinCode = req[p].code
            /\ UserActiveRows(players, l, req[p].user) # {}

\* C6: no step changes the leader of an existing lobby, and no lobby is
\* removed: leaderId stays what the create request set.
LeaderNeverChanges ==
    [][\A l \in DOMAIN lobbies :
          l \in DOMAIN lobbies' /\ lobbies'[l].leaderId = lobbies[l].leaderId]_vars

\* C6 witness: a kick has committed in a lobby that others had joined.
LeaderNeverChangesWitness ==
    \E p \in Procs :
        /\ pc[p] = "done" /\ req[p].op = "kick" /\ resp[p].status = StatusNoContent
        /\ lobbies[req[p].lobby].leaderId = req[p].user
        /\ Cardinality({i \in DOMAIN players : players[i].lobbyId = req[p].lobby}) >= 2
        /\ \E i \in DOMAIN players : players[i].lobbyId = req[p].lobby /\ ~players[i].isActive

\* C7: a stored user name never changes, and the name stored for a new id is
\* the name of the request whose commit inserted it.
UserNameIsFirstCommitted ==
    [][/\ \A u \in DOMAIN users : u \in DOMAIN users' /\ users'[u] = users[u]
       /\ \A u \in DOMAIN users' \ DOMAIN users :
            \E p \in Procs : /\ pc[p] \in {"cl_commit", "jl_commit"}
                             /\ pc'[p] # pc[p]
                             /\ req[p].user = u /\ users'[u] = req[p].name]_vars

\* C7 witness: a create or join of a known user succeeded under another name
\* than the stored one.
UserNameIsFirstCommittedWitness ==
    \E p \in Procs :
        /\ pc[p] = "done" /\ req[p].op \in {"create", "join"}
        /\ resp[p].status \in {StatusCreated, StatusOK}
        /\ req[p].user \in DOMAIN users
        /\ users[req[p].user] # req[p].name

\* C8: the step that answers a create with 201 adds exactly one lobby
\* (waiting, led by the caller) and exactly one membership (the caller's,
\* active), changes no other lobby or membership, and the response reports
\* that lobby's id, join code, leader and status and that single player.
CreateAddsOneLobbyOneMember ==
    [][\A p \in Procs :
          (/\ req[p].op = "create" /\ pc[p] # "done"
           /\ pc'[p] = "done" /\ resp'[p].status = StatusCreated)
          => \E l \in DOMAIN lobbies' \ DOMAIN lobbies,
                i \in DOMAIN players' \ DOMAIN players :
                /\ DOMAIN lobbies' = DOMAIN lobbies \cup {l}
                /\ \A k \in DOMAIN lobbies : lobbies'[k] = lobbies[k]
                /\ lobbies'[l].status = LobbyStatusWaiting
                /\ lobbies'[l].leaderId = req[p].user
                /\ DOMAIN players' = DOMAIN players \cup {i}
                /\ \A k \in DOMAIN players : players'[k] = players[k]
                /\ players'[i].lobbyId = l /\ players'[i].userId = req[p].user
                /\ players'[i].isActive /\ players'[i].leftAt = NoTime
                /\ Len(resp'[p].body) = 1
                /\ resp'[p].body[1].lobbyId = l
                /\ resp'[p].body[1].joinCode = lobbies'[l].joinCode
                /\ resp'[p].body[1].leaderId = lobbies'[l].leaderId
                /\ resp'[p].body[1].status = lobbies'[l].status
                /\ Len(resp'[p].body[1].players) = 1
                /\ resp'[p].body[1].players[1].id = i
                /\ resp'[p].body[1].players[1].userId = req[p].user
                /\ resp'[p].body[1].players[1].joinedAt = players'[i].joinedAt
                /\ resp'[p].body[1].players[1].isActive]_vars

\* C8 witness: a create was answered 201 while another lobby existed.
CreateAddsOneLobbyOneMemberWitness ==
    \E p \in Procs :
        /\ pc[p] = "done" /\ req[p].op = "create" /\ resp[p].status = StatusCreated
        /\ Cardinality(DOMAIN lobbies) = 2
        /\ Cardinality(DOMAIN players) >= 2

\* C9: the step that answers a kick with 204 sets isActive to false and
\* leftAt on exactly the rows of the target in that lobby that were active,
\* leaves every other row, user and lobby unchanged and removes no row.
KickTouchesOnlyTargetActiveRows ==
    [][\A p \in Procs :
          (/\ req[p].op = "kick" /\ pc[p] # "done"
           /\ pc'[p] = "done" /\ resp'[p].status = StatusNoContent)
          => /\ DOMAIN players' = DOMAIN players
             /\ \A i \in DOMAIN players :
                  IF /\ players[i].lobbyId = req[p].lobby
                     /\ players[i].userId = req[p].target
                     /\ players[i].isActive
                  THEN /\ ~players'[i].isActive
                       /\ players'[i].leftAt # NoTime
                       /\ players'[i].leftAt >= players[i].joinedAt
                       /\ players'[i] = [players[i] EXCEPT !.isActive = FALSE,
                                                           !.leftAt = players'[i].leftAt]
                  ELSE players'[i] = players[i]
             /\ users' = users
             /\ lobbies' = lobbies]_vars

\* C9 witness: the target was kicked, joined again and was kicked again; the
\* row of the first kick kept its own leftAt.
KickTouchesOnlyTargetActiveRowsWitness ==
    \E p \in Procs :
        /\ pc[p] = "done" /\ req[p].op = "kick" /\ resp[p].status = StatusNoContent
        /\ \E i, j \in DOMAIN players :
            /\ players[i].lobbyId = req[p].lobby /\ players[j].lobbyId = req[p].lobby
            /\ players[i].userId = req[p].target /\ players[j].userId = req[p].target
            /\ ~players[i].isActive /\ ~players[j].isActive
            /\ players[i].leftAt # NoTime
            /\ players[i].leftAt < players[j].leftAt

\* C10: a kick whose target is the caller is answered 400 cannot_kick_self
\* before any storage call (no leader lookup, no transaction), whether or not
\* the lobby exists and whatever the caller's role.
SelfKickRejectedBeforeStorage ==
    \A p \in Procs :
        (/\ pc[p] = "done" /\ req[p].op = "kick"
         /\ req[p].target = req[p].user /\ ~faulted[p])
        => /\ resp[p].status = StatusBadRequest
           /\ resp[p].code = "cannot_kick_self"
           /\ calls[p] = 0

\* C11: with requests one at a time and no storage failure, a join succeeds
\* exactly when a lobby with the code exists, is waiting, has fewer than
\* maxPlayers active rows and holds no active row of the caller; its commit
\* adds exactly one row, active, of the caller in that lobby, and changes no
\* other row (a kicked user's old row stays inactive beside the new one).
JoinSucceedsExactlyWhenOpen ==
    [][\A p \in Procs :
          LET c == req'[p].code
              found == {l \in DOMAIN lobbies : lobbies[l].joinCode = c}
              open == /\ found # {}
                      /\ \A l \in found :
                            /\ lobbies[l].status = LobbyStatusWaiting
                            /\ Cardinality(ActiveRows(players, l)) < maxPlayers
                            /\ UserActiveRows(players, l, req'[p].user) = {}
          IN /\ (req'[p].op = "join" /\ pc[p] # "done" /\ pc'[p] = "done")
                => IF pc[p] = "jl_detail"
                   THEN resp'[p].status = StatusOK
                   ELSE resp'[p].status # StatusOK /\ ~open /\ players' = players
             /\ (pc[p] = "jl_commit" /\ pc'[p] = "jl_detail")
                => /\ open
                   /\ \E i \in DOMAIN players' \ DOMAIN players :
                        /\ DOMAIN players' = DOMAIN players \cup {i}
                        /\ players'[i].lobbyId \in found
                        /\ players'[i].userId = req[p].user
                        /\ players'[i].isActive
                        /\ players'[i].leftAt = NoTime
                   /\ \A k \in DOMAIN players : players'[k] = players[k]
                   /\ lobbies' = lobbies
             /\ (req'[p].op = "join" /\ pc'[p] = "jl_commit") => open]_vars

\* C11 witness: a kicked user joined again: the join was answered 200 and the
\* user has the old inactive row and a new active one in the lobby.
JoinSucceedsExactlyWhenOpenWitness ==
    \E p \in Procs :
        /\ pc[p] = "done" /\ req[p].op = "join" /\ resp[p].status = StatusOK
        /\ \E i, j \in DOMAIN players :
            /\ players[i].userId = req[p].user /\ players[j].userId = req[p].user
            /\ players[i].lobbyId = players[j].lobbyId
            /\ ~players[i].isActive /\ players[i].leftAt # NoTime
            /\ players[j].isActive /\ players[j].joinedAt > players[i].leftAt

\* C12: no step removes a row: the sets of user ids, lobby ids and
\* membership ids only grow; a kicked or deactivated membership stays.
RowsOnlyGrow ==
    [][/\ DOMAIN users \subseteq DOMAIN users'
       /\ DOMAIN lobbies \subseteq DOMAIN lobbies'
       /\ DOMAIN players \subseteq DOMAIN players']_vars

\* C12 witness: the store holds a kicked membership (leftAt set) and a
\* membership deactivated by the active-status update (leftAt not set).
RowsOnlyGrowWitness ==
    \E i, j \in DOMAIN players :
        /\ ~players[i].isActive /\ players[i].leftAt # NoTime
        /\ ~players[j].isActive /\ players[j].leftAt = NoTime

\* C13: unless a storage call fails, GET /lobbies/{id} answers 404 not_found
\* for an absent lobby, 200 with the lobby's detail for the leader and for a
\* caller whose user id is in the lobby's membership list, and 403 forbidden
\* for every other caller of an existing lobby.
GetLobbyOnlyForLeaderOrListed ==
    \A p \in Procs :
        (pc[p] = "done" /\ req[p].op = "get" /\ ~faulted[p]) =>
            LET l == req[p].lobby
                listed == \E i \in DOMAIN players : /\ players[i].lobbyId = l
                                                    /\ players[i].userId = req[p].user
            IN IF ~LobbyExists(l)
               THEN resp[p].status = StatusNotFound /\ resp[p].code = "not_found"
               ELSE IF lobbies[l].leaderId = req[p].user \/ listed
               THEN /\ resp[p].status = StatusOK
                    /\ Len(resp[p].body) = 1
                    /\ resp[p].body[1].lobbyId = l
                    /\ resp[p].body[1].leaderId = lobbies[l].leaderId
                    /\ resp[p].body[1].joinCode = lobbies[l].joinCode
               ELSE /\ resp[p].status = StatusForbidden /\ resp[p].code = "forbidden"
                    /\ resp[p].body = <<>>

\* C13 witness: a member who is not the leader read the lobby, and it lists
\* the caller.
GetLobbyOnlyForLeaderOrListedWitness ==
    \E p \in Procs :
        /\ pc[p] = "done" /\ req[p].op = "get" /\ resp[p].status = StatusOK
        /\ lobbies[req[p].lobby].leaderId # req[p].user
        /\ \E k \in 1..Len(resp[p].body[1].players) :
              resp[p].body[1].players[k].userId = req[p].user

\* C14: the member guard lets a caller who is not the leader through only
\* if the caller has an active membership in the lobby: a user whose
\* memberships there are all inactive is answered 403 forbidden.
RequireMemberNeedsActiveRow ==
    \A p \in Procs :
        (/\ pc[p] = "done" /\ req[p].op = "get" /\ ~faulted[p]
         /\ LobbyExists(req[p].lobby)
         /\ lobbies[req[p].lobby].leaderId # req[p].user
         /\ UserActiveRows(players, req[p].lobby, req[p].user) = {})
        => (resp[p].status = StatusForbidden /\ resp[p].code = "forbidden")

\* C15: the generator makes one codeExists check per pass and at most
\* MaxRetries passes: a pass whose candidate does not exist returns that
\* candidate, a pass whose candidate exists goes round again, and when the
\* candidate of pass MaxRetries exists too the generator fails with
\* ErrMaxRetriesExceeded and returns no code.
GenerateStopsAfterMaxRetries ==
    [][\A p \in Procs :
          (pc[p] = "cl_gen" /\ loc'[p] # loc[p]) =>
             LET candidate == ToUpper(generateRandomCode(loc'[p].bytes)) IN
             /\ loc'[p].attempt = loc[p].attempt + 1
             /\ loc'[p].attempt <= MaxRetries
             /\ calls'[p] = calls[p] + 1
             /\ ~faulted'[p] =>
                  IF ~codeExists(candidate)
                  THEN /\ pc'[p] = "cl_lobby"
                       /\ loc'[p].joinCode = candidate /\ loc'[p].genErr = ""
                  ELSE IF loc'[p].attempt < MaxRetries
                  THEN /\ pc'[p] = "cl_gen"
                       /\ loc'[p].joinCode = <<>> /\ loc'[p].genErr = ""
                  ELSE /\ pc'[p] = "done"
                       /\ resp'[p].status = StatusInternalServerError
                       /\ loc'[p].joinCode = <<>>
                       /\ loc'[p].genErr = ErrMaxRetriesExceeded]_vars

\* C15 witness: five candidates in a row existed and the create failed
\* without a code.
GenerateStopsAfterMaxRetriesWitness ==
    \E p \in Procs :
        /\ pc[p] = "done" /\ req[p].op = "create"
        /\ loc[p].attempt = MaxRetries
        /\ loc[p].genErr = ErrMaxRetriesExceeded
        /\ loc[p].joinCode = <<>> /\ ~faulted[p]

\* C16: when codeExists returns an error in any pass, the generator fails
\* at once with the collision-check error: no further pass, no code, also
\* when passes remain.
GenerateFailsAtOnceOnOracleError ==
    [][\A p \in Procs :
          (pc[p] = "cl_gen" /\ faulted'[p] /\ ~faulted[p]) =>
             /\ pc'[p] = "done"
             /\ resp'[p].status = StatusInternalServerError
             /\ loc'[p].genErr = ErrCheckCollision
             /\ loc'[p].joinCode = <<>>
             /\ calls'[p] = calls[p] + 1]_vars

\* C16 witness: the check failed in a pass after a collision, with passes
\* left, and the create ended there.
GenerateFailsAtOnceOnOracleErrorWitness ==
    \E p \in Procs :
        /\ pc[p] = "done" /\ req[p].op = "create" /\ faulted[p]
        /\ loc[p].genErr = ErrCheckCollision
        /\ loc[p].attempt > 1 /\ loc[p].attempt < MaxRetries
        /\ loc[p].joinCode = <<>>

\* Create requests of one user whose random source puts every byte value at
\* every position of the buffer.
CodeShape ==
    [slots |-> 1, ordered |-> FALSE, faults |-> {FALSE}, creators |-> {1}, users |-> {1},
     names |-> {"Alice"}, randBytes |-> AllBytes, joinCodes |-> {}, lobbyIds |-> {},
     targets |-> {}, playerIds |-> {}, maxLobbies |-> 1, maxRows |-> 1, maxClock |-> 1]

InitCodeShape == workload = CodeShape /\ Idle

NextCodeShape ==
    \E p \in Procs :
        \/ CreateBegin(p)
        \/ CreateUser(p)
        \/ CreateGenerate(p)
        \/ CreateLobby(p)
        \/ CreatePlayer(p)
        \/ CreateCommit(p)
        \/ Return(p)

SpecCodeShape == InitCodeShape /\ [][NextCodeShape]_vars

\* C17: every code the generator produces, and so every code stored with a
\* lobby, has exactly 6 characters from the 36 symbols A-Z 0-9; for every
\* byte value b of the random buffer, position i holds Charset[b mod 36].
CodeIsSixFromAlphabet ==
    LET Alphabet == {"A", "B", "C", "D", "E", "F", "G", "H", "I", "J", "K", "L", "M",
                     "N", "O", "P", "Q", "R", "S", "T", "U", "V", "W", "X", "Y", "Z",
                     "0", "1", "2", "3", "4", "5", "6", "7", "8", "9"}
    IN /\ Cardinality(Alphabet) = 36
       /\ \A p \in Procs :
            loc[p].joinCode # <<>> =>
               /\ Len(loc[p].joinCode) = 6
               /\ \A i \in 1..6 :
                    /\ loc[p].joinCode[i] \in Alphabet
                    /\ loc[p].joinCode[i] = Charset[(loc[p].bytes[i] % 36) + 1]
       /\ \A l \in DOMAIN lobbies :
            /\ Len(lobbies[l].joinCode) = 6
            /\ \A i \in 1..6 : lobbies[l].joinCode[i] \in Alphabet

\* C17 witness: a create was answered 201 whose buffer held the largest
\* byte, beyond the alphabet's size: 255 mod 36 = 3, the stored code has D there.
CodeIsSixFromAlphabetWitness ==
    \E p \in Procs, i \in 1..CodeLength :
        /\ pc[p] = "done" /\ resp[p].status = StatusCreated
        /\ loc[p].bytes[i] = MaxByte /\ loc[p].joinCode[i] = "D"
        /\ LobbyExists(loc[p].lobbyID)
        /\ lobbies[loc[p].lobbyID].joinCode[i] = "D"

\* C18: each conflict condition (lobby not joinable, lobby full, caller
\* already a member, kick of oneself, lobby insert rejected for a duplicate
\* join code) is answered as a rejection of the request (a 4xx status, 409
\* for the join conflicts) with a reason that names the condition and tells
\* it from the other four.
ConflictsHaveDistinctReasons ==
    \A p \in Procs :
        (pc[p] = "done" /\ ~faulted[p]) =>
            LET l == IF req[p].op = "join"
                     THEN {x \in DOMAIN lobbies : lobbies[x].joinCode = req[p].code}
                     ELSE {}
                reasons == {"lobby_not_joinable", "lobby_full", "already_in_lobby",
                            "cannot_kick_self"}
            IN /\ (req[p].op = "join" /\ resp[p].status # StatusOK /\ l # {}) =>
                    /\ resp[p].status = StatusConflict
                    /\ resp[p].code \in {"lobby_not_joinable", "lobby_full", "already_in_lobby"}
               /\ (/\ req[p].op = "kick" /\ req[p].target = req[p].user
                   /\ LobbyExists(req[p].lobby)
                   /\ lobbies[req[p].lobby].leaderId = req[p].user) =>
                    /\ resp[p].status \in {StatusBadRequest, StatusConflict}
                    /\ resp[p].code = "cannot_kick_self"
               /\ (/\ req[p].op = "create" /\ resp[p].status # StatusCreated
                   /\ loc[p].joinCode # <<>>) =>
                    /\ resp[p].status \in {StatusBadRequest, StatusConflict}
                    /\ resp[p].code \notin reasons \cup {"internal_error", ""}

\* Requests of all five routes by enough users to fill one lobby, one at a
\* time, no storage failures; the active-status route is called for the
\* players row 3.
CapacityActive ==
    [Capacity EXCEPT !.playerIds = {3}]

InitCapacityActive == workload = CapacityActive /\ Idle

SpecCapacityActive == InitCapacityActive /\ [][Next]_vars

\* C19: with create, join, kick and active-status requests one at a time,
\* no lobby ever has more than maxPlayers rows with isActive = true.
ActiveNeverExceedsMaxPlayers ==
    \A l \in DOMAIN lobbies :
        Cardinality({i \in DOMAIN players : players[i].lobbyId = l /\ players[i].isActive})
            <= maxPlayers

\* C20: with create, join, kick and active-status requests one at a time,
\* each (lobby, user) pair has at most one membership row with isActive = true.
OneActiveRowPerLobbyAndUser ==
    \A i, j \in DOMAIN players :
        (/\ players[i].lobbyId = players[j].lobbyId
         /\ players[i].userId = players[j].userId
         /\ players[i].isActive /\ players[j].isActive) => i = j

\* C21: in every reachable state a membership's leftAt is set exactly when
\* the membership is inactive: a row deactivated by a kick or by the
\* active-status update has leftAt set, an active row has leftAt null.
LeftAtSetExactlyWhenInactive ==
    \A i \in DOMAIN players : players[i].isActive <=> players[i].leftAt = NoTime

\* C22: an active-status request with is_active = false, addressed by the id
\* of a players row of an existing lobby that is active, is answered 204 and
\* leaves that row with isActive = false (unless a storage call fails).
SetInactiveByMembershipIdSucceeds ==
    [][\A p \in Procs :
          (/\ req'[p].op = "set" /\ ~req'[p].active
           /\ pc[p] # "done" /\ pc'[p] = "done" /\ ~faulted'[p]
           /\ LobbyExists(req'[p].lobby)
           /\ req'[p].target \in ActiveRows(players, req'[p].lobby))
          => /\ resp'[p].status = StatusNoContent
             /\ ~players'[req'[p].target].isActive]_vars

\* C23: an active-status request is answered 404 not_found and changes no
\* row when the lobby does not exist or when the addressed id is not the id
\* of an active players row of that lobby (unknown id, row of another lobby,
\* row already deactivated), unless a storage call fails.
SetActiveNotFoundChangesNothing ==
    [][\A p \in Procs :
          (/\ req'[p].op = "set"
           /\ pc[p] # "done" /\ pc'[p] = "done" /\ ~faulted'[p]
           /\ \/ ~LobbyExists(req'[p].lobby)
              \/ req'[p].target \notin ActiveRows(players, req'[p].lobby))
          => /\ resp'[p].status = StatusNotFound
             /\ resp'[p].code = "not_found"
             /\ players' = players]_vars

\* C24: when two concurrent creates drew the same join code and both passed
\* the generator's check, one insert succeeds and the other is rejected by
\* the store once the first has committed: the rejected create is answered
\* with an error at once, draws no new code, and leaves no lobby, membership
\* or user row behind.
CreateRaceOneInsertWins ==
    [][\A p \in Procs :
          (/\ pc[p] = "cl_lobby" /\ pc'[p] # "cl_lobby"
           /\ codeExists(loc[p].joinCode))
          => /\ pc'[p] = "done"
             /\ resp'[p].status = StatusInternalServerError
             /\ loc'[p] = loc[p]
             /\ tx'[p] = NoTx
             /\ users' = users /\ lobbies' = lobbies /\ players' = players
             /\ ~dirty'[p]
             /\ Cardinality({l \in DOMAIN lobbies' :
                                lobbies'[l].joinCode = loc[p].joinCode}) = 1]_vars

\* C24 witness: the create of a user not yet stored lost the race on its
\* first code: the other create's lobby holds the code, the loser's user row
\* was rolled back with its transaction.
CreateRaceOneInsertWinsWitness ==
    \E p \in Procs :
        /\ pc[p] = "done" /\ req[p].op = "create"
        /\ resp[p].status = StatusInternalServerError
        /\ loc[p].attempt = 1 /\ loc[p].lobbyID = 0
        /\ \E l \in DOMAIN lobbies : /\ lobbies[l].joinCode = loc[p].joinCode
                                      /\ lobbies[l].leaderId # req[p].user
        /\ req[p].user \notin DOMAIN users
        /\ tx[p] = NoTx

\* One lobby and joins of enough users to overfill it, two requests side by
\* side, no storage failures.
JoinRace ==
    [slots |-> 2, ordered |-> TRUE, faults |-> {FALSE}, creators |-> {1},
     users |-> ManyUserIds, names |-> {"Alice"}, randBytes |-> {SameBytes(0)},
     joinCodes |-> {ToUpper(generateRandomCode(SameBytes(0)))}, lobbyIds |-> {},
     targets |-> {}, playerIds |-> {}, maxLobbies |-> 1,
     maxRows |-> maxPlayers + 1, maxClock |-> maxPlayers + 1]

InitJoinRace == workload = JoinRace /\ Idle

NextJoinRace ==
    \E p \in Procs :
        \/ CreateBegin(p)
        \/ CreateUser(p)
        \/ CreateGenerate(p)
        \/ CreateLobby(p)
        \/ CreatePlayer(p)
        \/ CreateCommit(p)
        \/ JoinBegin(p)
        \/ JoinFind(p)
        \/ JoinCount(p)
        \/ JoinMember(p)
        \/ JoinUser(p)
        \/ JoinAdd(p)
        \/ JoinCommit(p)
        \/ JoinDetail(p)
        \/ Return(p)

SpecJoinRace == InitJoinRace /\ [][NextJoinRace]_vars

\* C25: the count of a join sees committed rows only: a join is turned away
\* as full only when maxPlayers active rows are committed, never on account
\* of the uncommitted insert of a concurrent join.  Two joins on a lobby
\* with maxPlayers - 1 active rows therefore both pass the check and both
\* insert (the witness: a lobby with more than maxPlayers active rows).
JoinCountSeesCommittedRowsOnly ==
    [][\A p \in Procs :
          (pc[p] = "jl_count" /\ pc'[p] # "jl_count") =>
             IF Cardinality(ActiveRows(players, loc[p].lobbyID)) < maxPlayers
             THEN pc'[p] = "jl_member"
             ELSE /\ pc'[p] = "done"
                  /\ resp'[p].status = StatusConflict
                  /\ resp'[p].code = "lobby_full"]_vars

\* C25 witness: two joins of different users ran side by side on a lobby
\* with maxPlayers - 1 active rows; both committed, the second is answered
\* 200 and the lobby has maxPlayers + 1 active rows.
JoinCountSeesCommittedRowsOnlyWitness ==
    \E p \in Procs, l \in DOMAIN lobbies :
        /\ pc[p] = "done" /\ req[p].op = "join" /\ resp[p].status = StatusOK
        /\ loc[p].lobbyID = l
        /\ Cardinality(ActiveRows(players, l)) = maxPlayers + 1
        /\ \A i, j \in ActiveRows(players, l) :
              players[i].userId = players[j].userId => i = j

\* C26: the lobby detail answered by GET /lobbies/{id} and by a successful
\* join lists every players row of the lobby exactly once, active and
\* inactive alike, each with its user, joinedAt and isActive, ordered by
\* joinedAt ascending; after A creates and B joins the players are [A, B].
DetailListsAllRowsByJoinedAt ==
    \A p \in Procs :
        (pc[p] = "done" /\ req[p].op \in {"get", "join"} /\ resp[p].status = StatusOK) =>
            LET detail == resp[p].body[1]
                list == detail.players
                rows == {i \in DOMAIN players : players[i].lobbyId = detail.lobbyId}
            IN /\ Len(resp[p].body) = 1
               /\ {list[k].id : k \in 1..Len(list)} = rows
               /\ Len(list) = Cardinality(rows)
               /\ \A k \in 1..Len(list) :
                    /\ list[k].userId = players[list[k].id].userId
                    /\ list[k].joinedAt = players[list[k].id].joinedAt
                    /\ list[k].isActive = players[list[k].id].isActive
                    /\ list[k].username = users[list[k].userId]
               /\ \A k, m \in 1..Len(list) :
                    k < m => list[k].joinedAt <= list[m].joinedAt
               /\ (Len(list) = 2 /\ list[1].userId # list[2].userId) =>
                    /\ list[1].userId = detail.leaderId
                    /\ req[p].op = "join" => list[2].userId = req[p].user

\* C26 witness: B joined A's lobby, was kicked and joined again: the answer
\* to the second join lists A, B's inactive row and B's new row, in that order.
DetailListsAllRowsByJoinedAtWitness ==
    \E p \in Procs :
        /\ pc[p] = "done" /\ req[p].op = "join" /\ resp[p].status = StatusOK
        /\ LET list == resp[p].body[1].players
           IN /\ Len(list) = 3
              /\ list[1].userId = resp[p].body[1].leaderId /\ list[1].isActive
              /\ list[2].userId = req[p].user /\ ~list[2].isActive
              /\ list[3].userId = req[p].user /\ list[3].isActive
              /\ list[1].joinedAt < list[2].joinedAt
              /\ list[2].joinedAt < list[3].joinedAt

\* C27: in every committed state, creates in flight included, the leader of
\* each lobby is a stored user with at least one players row in that lobby:
\* no reader sees a lobby without its leader's membership.
LeaderHasMembershipRow ==
    \A l \in DOMAIN lobbies :
        /\ lobbies[l].leaderId \in DOMAIN users
        /\ \E i \in DOMAIN players : /\ players[i].lobbyId = l
                                      /\ players[i].userId = lobbies[l].leaderId

\* C27 witness: a create had inserted its lobby but not yet the leader's
\* membership when a concurrent GET of that lobby id was answered 404.
LeaderHasMembershipRowWitness ==
    \E p, q \in Procs :
        /\ pc[p] = "cl_player" /\ loc[p].lobbyID \in DOMAIN tx[p].lobbies
        /\ tx[p].players = EmptyFn
        /\ pc[q] = "done" /\ req[q].op = "get" /\ req[q].lobby = loc[p].lobbyID
        /\ resp[q].status = StatusNotFound

\* C28: a kick that fails is answered with the first failing condition in
\* the order: target equals caller (cannot_kick_self), lobby absent
\* (not_found), caller not the leader (forbidden), target without an active
\* row in the lobby (player_not_in_lobby), and changes no row; a kick that
\* passes them all is answered 204.
KickErrorOrder ==
    \A p \in Procs :
        (pc[p] = "done" /\ req[p].op = "kick" /\ ~faulted[p]) =>
            IF resp[p].status = StatusNoContent
            THEN /\ req[p].target # req[p].user
                 /\ LobbyExists(req[p].lobby)
                 /\ lobbies[req[p].lobby].leaderId = req[p].user
                 /\ dirty[p]
            ELSE /\ ~dirty[p]
                 /\ resp[p].code =
                        IF req[p].target = req[p].user THEN "cannot_kick_self"
                        ELSE IF ~LobbyExists(req[p].lobby) THEN "not_found"
                        ELSE IF lobbies[req[p].lobby].leaderId # req[p].user
                             THEN "forbidden"
                        ELSE IF UserActiveRows(players, req[p].lobby, req[p].target) = {}
                             THEN "player_not_in_lobby"
                        ELSE "none"

\* C29: in create, join, kick and the active-status update every transaction
\* that was begun is ended when the request returns; the committed tables
\* change only at the commit of a request none of whose storage calls
\* failed, and then by exactly the transaction's writes; every other return
\* path discards them, and the rollback deferred past a successful commit
\* changes nothing.
EveryTxEndsCommitOnlyOnSuccess ==
    [][/\ \A p \in Procs :
            /\ pc'[p] \in {"idle", "done"} => tx'[p] = NoTx
            /\ (tx[p].open /\ pc'[p] # pc[p]
                /\ pc[p] \notin {"cl_commit", "jl_commit", "kp_commit", "ua_commit"})
               => /\ users' = users /\ lobbies' = lobbies /\ players' = players
                  /\ pc'[p] = "done" => tx'[p] = NoTx
            /\ (pc[p] \in {"cl_commit", "jl_commit", "kp_commit", "ua_commit"}
                /\ pc'[p] # pc[p])
               => /\ tx[p].open /\ ~faulted[p] /\ tx'[p] = NoTx
                  /\ IF faulted'[p]
                     THEN /\ users' = users /\ lobbies' = lobbies /\ players' = players
                          /\ pc'[p] = "done"
                          /\ resp'[p].status = StatusInternalServerError
                     ELSE /\ users' = tx[p].users @@ users
                          /\ lobbies' = tx[p].lobbies @@ lobbies
                          /\ players' = tx[p].players @@ players
            /\ (pc[p] = "jl_detail" /\ pc'[p] = "done")
               => users' = users /\ lobbies' = lobbies /\ players' = players
       /\ (users' # users \/ players' # players \/ DOMAIN lobbies' # DOMAIN lobbies)
          => \E p \in Procs :
                /\ pc[p] \in {"cl_commit", "jl_commit", "kp_commit", "ua_commit"}
                /\ pc'[p] # pc[p] /\ ~faulted'[p]]_vars

\* C29 witness: a join committed and the read of the lobby detail after the
\* commit failed: the answer is an error, the transaction is closed and the
\* committed membership is still there.
EveryTxEndsCommitOnlyOnSuccessWitness ==
    \E p \in Procs :
        /\ pc[p] = "done" /\ req[p].op = "join"
        /\ resp[p].status = StatusInternalServerError
        /\ faulted[p] /\ dirty[p] /\ tx[p] = NoTx
        /\ loc[p].playerID \in DOMAIN players
        /\ players[loc[p].playerID].userId = req[p].user
        /\ players[loc[p].playerID].isActive

\* C30: no step of a request changes the status or the join code of an
\* existing lobby or removes a lobby; a lobby that a request adds has the
\* status waiting.  (The status is changed only from outside the service.)
RequestsKeepStatusAndJoinCode ==
    [][pc' # pc =>
          /\ \A l \in DOMAIN lobbies :
                /\ l \in DOMAIN lobbies'
                /\ lobbies'[l].status = lobbies[l].status
                /\ lobbies'[l].joinCode = lobbies[l].joinCode
          /\ \A l \in DOMAIN lobbies' \ DOMAIN lobbies :
                /\ lobbies'[l].status = LobbyStatusWaiting
                /\ \E p \in Procs : /\ pc[p] = "cl_commit" /\ req[p].op = "create"
                                     /\ lobbies'[l].joinCode = loc[p].joinCode]_vars

\* C30 witness: the leader kicked a member of a lobby whose game had been
\* started: the kick is answered 204 and the lobby is still running.
RequestsKeepStatusAndJoinCodeWitness ==
    \E p \in Procs :
        /\ pc[p] = "done" /\ req[p].op = "kick" /\ resp[p].status = StatusNoContent
        /\ dirty[p]
        /\ lobbies[req[p].lobby].status = LobbyStatusInGame
        /\ lobbies[req[p].lobby].joinCode \in GenCodes

\* C31: an active-status request with is_active = true, addressed by the id
\* of a players row of the lobby that was deactivated earlier, is answered
\* 204 and leaves that row active again (unless a storage call fails).
SetActiveReactivatesRow ==
    [][\A p \in Procs :
          (/\ req'[p].op = "set" /\ req'[p].active
           /\ pc[p] # "done" /\ pc'[p] = "done" /\ ~faulted'[p]
           /\ LobbyExists(req'[p].lobby)
           /\ req'[p].target \in DOMAIN players
           /\ players[req'[p].target].lobbyId = req'[p].lobby
           /\ ~players[req'[p].target].isActive)
          => /\ resp'[p].status = StatusNoContent
             /\ players'[req'[p].target].isActive]_vars

\* C32: the already-a-member check of a join sees committed rows only, and
\* no constraint of the players table rejects a second active row of the
\* same user: a join passes the check exactly when no active row of the
\* caller is committed, and its insert goes through.  Two joins of one user
\* side by side therefore both pass and both insert (the witness: one
\* (lobby, user) pair with two active rows).
JoinMemberCheckSeesCommittedRowsOnly ==
    [][\A p \in Procs :
          /\ (pc[p] = "jl_member" /\ pc'[p] # "jl_member") =>
                IF UserActiveRows(players, loc[p].lobbyID, req[p].user) = {}
                THEN pc'[p] = "jl_user"
                ELSE /\ pc'[p] = "done"
                     /\ resp'[p].status = StatusConflict
                     /\ resp'[p].code = "already_in_lobby"
          /\ (pc[p] = "jl_add" /\ pc'[p] # "jl_add") =>
                /\ pc'[p] = "jl_commit"
                /\ loc'[p].playerID \in DOMAIN tx'[p].players
                /\ tx'[p].players[loc'[p].playerID].isActive]_vars

\* C32 witness: two joins of the same user ran side by side; both
\* committed, the second is answered 200 and the user has two active rows,
\* neither of them ever deactivated, in the lobby.
JoinMemberCheckSeesCommittedRowsOnlyWitness ==
    \E p \in Procs, i, j \in DOMAIN players :
        /\ pc[p] = "done" /\ req[p].op = "join" /\ resp[p].status = StatusOK
        /\ i # j /\ j = loc[p].playerID
        /\ players[i].lobbyId = loc[p].lobbyID /\ players[j].lobbyId = loc[p].lobbyID
        /\ players[i].userId = req[p].user /\ players[j].userId = req[p].user
        /\ players[i].isActive /\ players[j].isActive
        /\ players[i].leftAt = NoTime /\ players[j].leftAt = NoTime
        /\ lobbies[loc[p].lobbyID].leaderId # req[p].user

\* C33: once the member guard has let a caller through, the handler's own
\* membership check over the detail it reads does not answer forbidden,
\* whatever joins, kicks and active-status updates of other requests commit
\* between the guard's reads and the handler's read: without a storage
\* failure the request is answered 200.
GuardPassedNeverForbidden ==
    [][\A p \in Procs :
          (pc[p] = "gl_detail" /\ pc'[p] # "gl_detail") =>
             /\ pc'[p] = "done"
             /\ resp'[p].status # StatusForbidden
             /\ ~faulted'[p] => resp'[p].status = StatusOK]_vars

\* C33 witness: the guard has let a member through who is not the leader,
\* and before the handler reads the lobby a concurrent kick of that member
\* has committed: the caller has no active row left in the lobby.
GuardPassedNeverForbiddenWitness ==
    \E p, q \in Procs :
        /\ pc[p] = "gl_detail" /\ req[p].op = "get"
        /\ lobbies[req[p].lobby].leaderId # req[p].user
        /\ pc[q] = "done" /\ req[q].op = "kick" /\ resp[q].status = StatusNoContent
        /\ req[q].lobby = req[p].lobby /\ req[q].target = req[p].user
        /\ dirty[q]
        /\ UserActiveRows(players, req[p].lobby, req[p].user) = {}

\* Create, join and kick requests, two side by side, no storage failures.
CreateJoinKick ==
    [Concurrent EXCEPT !.playerIds = {}]

InitCreateJoinKick == workload = CreateJoinKick /\ Idle

SpecCreateJoinKick == InitCreateJoinKick /\ [][NextCapacity]_vars

\* C34: after any sequence of create, join and kick requests, one at a time
\* or interleaved, the leader of every lobby has exactly one active players
\* row in it: a kick never deactivates the leader.
LeaderKeepsOneActiveRow ==
    \A l \in DOMAIN lobbies :
        Cardinality(UserActiveRows(players, l, lobbies[l].leaderId)) = 1

\* C34 witness: the leader of a lobby that another user has joined asked to
\* kick the leader's own user id and was turned away; the leader's row is
\* still active.
LeaderKeepsOneActiveRowWitness ==
    \E p \in Procs :
        /\ pc[p] = "done" /\ req[p].op = "kick"
        /\ LobbyExists(req[p].lobby)
        /\ lobbies[req[p].lobby].leaderId = req[p].user
        /\ req[p].target = req[p].user
        /\ resp[p].code = "cannot_kick_self"
        /\ Cardinality(ActiveRows(players, req[p].lobby)) >= 2
        /\ UserActiveRows(players, req[p].lobby, req[p].user) # {}

\* C35: a kick is answered 204 only if its own update deactivated at least
\* one players row of the target in the lobby, also when two kicks of the
\* same target run side by side.
KickSuccessDeactivatedARow ==
    [][\A p \in Procs :
          (/\ req[p].op = "kick" /\ pc[p] = "kp_commit"
           /\ pc'[p] = "done" /\ resp'[p].status = StatusNoContent)
          => \E i \in DOMAIN tx[p].players :
                /\ players[i].lobbyId = req[p].lobby
                /\ players[i].userId = req[p].target
                /\ players[i].isActive /\ ~players'[i].isActive]_vars

\* C36: the lobby detail in the 201 answer of a create equals what
\* GetLobbyDetail returns for that lobby right after it, with no step in
\* between, the user name of each player included, also when the caller's
\* user row existed before under another name.
CreateResponseEqualsDetail ==
    \A p \in Procs :
        (pc[p] = "done" /\ req[p].op = "create" /\ resp[p].status = StatusCreated)
        => /\ LobbyExists(loc[p].lobbyID)
           /\ resp[p].body = <<GetLobbyDetail(loc[p].lobbyID)>>

\* C37: a join that is answered with an error has added no players row and
\* no user row to the committed tables, also when the storage call that
\* failed is the read of the lobby detail after the commit.
FailedJoinWritesNothing ==
    \A p \in Procs :
        (pc[p] = "done" /\ req[p].op = "join" /\ resp[p].status # StatusOK)
        => ~dirty[p]

====
